---- MODULE Spec2Model ----
(***************************************************************************)
(* Task orchestration of the coding-agent service: one task driven by      *)
(* POST -> processTaskWithTimeout -> processTask -> createSandbox ->       *)
(* executeAgentInSandbox -> pushChangesToBranch, concurrently with the     *)
(* after() branch-name generator, the 4-minute warning timer, the 5-minute *)
(* global timer and a stop request.  Every await of the source is an       *)
(* interleaving point; the steps between two awaits are one action.        *)
(***************************************************************************)
EXTENDS Integers, Sequences, FiniteSets, TLC

\* ------------------------------------------------------------- bounds
\* Stop requests accepted for the task over one run.
MaxStops == 1
\* Other tasks whose sandboxes may sit in the process-wide registry.
MaxOthers == 1
\* Logger calls one awaiting writer makes for the task.
MaxCalls == 1
\* Logger calls the stdout callback of the Cursor agent makes for the task.
MaxCallbackCalls == 2
\* Rows of the tasks table when DELETE /api/tasks is called.
MaxRows == 2
\* Comma-separated values of the action parameter of DELETE /api/tasks.
MaxActions == 2

\* ------------------------------------------------------------- state
VARIABLES
  status,        \* tasks.status of the task ("absent" before the insert)
  progress,      \* tasks.progress
  logs,          \* tasks.logs: the entries appended so far
  taskError,     \* tasks.error
  branchName,    \* tasks.branchName ("none" = null)
  pc,            \* position of processTask / createSandbox
  wrap,          \* position of processTaskWithTimeout
  warn,          \* the 4-minute warning timer
  gen,           \* position of the after() branch-name generator
  stop,          \* position of the stop request handler
  stopCount,     \* stop requests accepted so far
  registry,      \* activeSandboxes: task ids in insertion order
  loc,           \* locals of processTask / createSandbox
  hist,          \* observation counters of the run
  captured,      \* the result of the last sandbox command: its command string,
                 \* output and error text
  journal,       \* tasks.logs as the sequence the writers of one task build
  writers,       \* the logger calls each writer has made and has in flight
  table,         \* the tasks table as DELETE /api/tasks sees it: id -> status
  reply,         \* the response to the last DELETE /api/tasks
  setup          \* a sandbox as createSandbox finds it: the files of the project,
                 \* the branches of the repository, and what createSandbox
                 \* derives from them

\* What the run of one task never touches: the state of the specifications of
\* the logging call sites, of the log writers, of the bulk delete and of the
\* sandbox setup.
side == <<captured, journal, writers, table, reply, setup>>

vars == <<status, progress, logs, taskError, branchName, pc, wrap, warn, gen,
          stop, stopCount, registry, loc, hist, side>>

\* The task under observation and the other tasks sharing the registry.
Self == 0
Others == 1..MaxOthers

Terminal == {"completed", "error", "stopped"}
Active == {"pending", "processing"}

\* ------------------------------------------------------------- task logger
\* logger.info / command / error / success: one entry appended to tasks.logs.
\* The entries are kept as the set of what was appended; their order is not tracked.
LogAppend(l, type, msg) == l \cup {[type |-> type, msg |-> msg]}

\* logger.updateStatus(status, message): the status row is overwritten.
updateStatus(cur, new) == new

\* logger.updateProgress(progress, message): the progress row is overwritten.
updateProgress(cur, new) == new

\* ------------------------------------------------------------- sandbox registry
Has(reg, t) == \E i \in 1..Len(reg) : reg[i] = t

Without(reg, t) == SelectSeq(reg, LAMBDA x : x # t)

\* activeSandboxes.set(taskId, sandbox): a new key goes last, an old key keeps its place.
registerSandbox(reg, t) == IF Has(reg, t) THEN reg ELSE Append(reg, t)

unregisterSandboxOrOldest(reg, t) == IF Has(reg, t) THEN Without(reg, t)
                                    ELSE IF Len(reg) > 0 THEN Tail(reg) ELSE reg

\* activeSandboxes.delete(taskId)
unregisterSandbox(reg, t) == Without(reg, t)

killSandboxNewest(reg, t) == IF Has(reg, t) THEN Without(reg, t)
                            ELSE IF Len(reg) > 0 THEN SubSeq(reg, 1, Len(reg) - 1) ELSE reg

killSandboxNoDelete(reg, t) == IF Has(reg, t) THEN reg
                               ELSE IF Len(reg) > 0 THEN Tail(reg) ELSE reg

\* killSandbox(taskId): the entry of taskId, else the first (oldest) entry, is deleted.
killSandbox(reg, t) == IF Has(reg, t) THEN Without(reg, t)
                       ELSE IF Len(reg) > 0 THEN Tail(reg) ELSE reg

\* No task: the report of killSandbox names none.
NoTask == 0 - 1

\* What killSandbox(taskId) returns: success and the task whose entry it deleted
\* (named in the message of the fallback).
killSandboxReport(reg, t) ==
  IF Has(reg, t) THEN [success |-> TRUE, killed |-> t]
  ELSE IF Len(reg) > 0 THEN [success |-> TRUE, killed |-> Head(reg)]
  ELSE [success |-> FALSE, killed |-> NoTask]

\* Removals of the observed task's entry by one registry operation.
Removed(reg, reg2) == IF Has(reg, Self) /\ ~Has(reg2, Self) THEN 1 ELSE 0

\* ------------------------------------------------------------- initial state
InitLoc == [aiBranchName |-> "none", sandbox |-> FALSE, installDependencies |-> FALSE,
            packageManager |-> "npm", installOk |-> TRUE, resultBranch |-> "none",
            pushFailed |-> FALSE, pushSuccess |-> TRUE, errMsg |-> "none",
            changesDetected |-> FALSE, npmRetries |-> 0]

\* No create request has been sent.
NoBody == [prompt |-> "none", repoUrl |-> "none", selectedAgent |-> "none"]

InitHist == [created |-> 0, registered |-> 0, removed |-> 0, shutdowns |-> 0,
             agentInvoked |-> FALSE, agentSuccess |-> FALSE, depFail |-> FALSE,
             pushReason |-> "none", stopBeforeCreate |-> FALSE,
             stopAfterRegister |-> FALSE, tree |-> "none", gitCmds |-> {},
             waitExpired |-> FALSE, fallbackWrites |-> 0, pushBranch |-> "none",
             request |-> NoBody, response |-> 0]

\* No sandbox command has run.
NoResult == [command |-> "none", output |-> "none", error |-> "none"]

\* No writer has made a logger call.
NoCalls == [made |-> {}, inflight |-> {}]

\* The tasks table without a row, and no DELETE answered.
NoRows == <<>>

NoReply == [action |-> <<>>, code |-> 0, serial |-> 0]

\* No git command chosen, and none run.
NoPlan == [command |-> "none", branch |-> "none", pull |-> FALSE]

NoBranchResult == [success |-> FALSE, branchName |-> "none", ran |-> FALSE]

\* pushChangesToBranch not called.
NoPushResult == [success |-> FALSE, pushFailed |-> FALSE, returned |-> FALSE]

NoPush == [tree |-> "clean", statusOutput |-> "", addOk |-> FALSE, commitOk |-> FALSE,
           pushOk |-> FALSE, throwsAt |-> "none", at |-> "idle", cmds |-> <<>>,
           result |-> NoPushResult]

\* No agent variant called.
NoAgentResult == [success |-> FALSE, error |-> "none", returned |-> FALSE]

NoAgentRun == [variant |-> "none", credential |-> FALSE, cliAvailable |-> FALSE,
               cliOk |-> FALSE, at |-> "idle", cliInvoked |-> FALSE,
               result |-> NoAgentResult]

\* The Cursor variant not polling.
NoPoll == [markerAt |-> 0, capturedError |-> "", attempts |-> 0, isCompleted |-> FALSE,
           at |-> "idle", result |-> NoAgentResult]

\* No agent timer armed.
NoTimers == [agent |-> "none", startedAt |-> 0, agentTimeout |-> 0, agentExpiry |-> 0,
             globalExpiry |-> 0, fired |-> "none", at |-> "idle"]

\* An empty project in a repository without branches; nothing derived.
NoSetup ==
  [project |-> [installDependencies |-> FALSE, packageJson |-> FALSE,
                requirementsTxt |-> FALSE, pnpmLock |-> FALSE, yarnLock |-> FALSE,
                npmLock |-> FALSE, section |-> "none", packageManager |-> "none"],
   git |-> [existingBranchName |-> "none", preDeterminedBranchName |-> "none",
            localBranch |-> FALSE, lsRemoteOk |-> FALSE, lsRemoteOutput |-> "",
            commandOk |-> FALSE, pullOk |-> FALSE,
            plan |-> NoPlan, result |-> NoBranchResult],
   push |-> NoPush,
   agent |-> NoAgentRun,
   poll |-> NoPoll,
   timers |-> NoTimers]

Init ==
  /\ status = "absent"
  /\ progress = 0
  /\ logs = {}
  /\ taskError = "none"
  /\ branchName = "none"
  /\ pc = "idle"
  /\ wrap = "idle"
  /\ warn = "idle"
  /\ gen = "idle"
  /\ stop = "idle"
  /\ stopCount = 0
  /\ registry = <<>>
  /\ loc = InitLoc
  /\ hist = InitHist
  /\ captured = NoResult
  /\ journal = <<>>
  /\ writers = NoCalls
  /\ table = NoRows
  /\ reply = NoReply
  /\ setup = NoSetup

\* ------------------------------------------------------------- helpers of the steps
\* isTaskStopped(taskId): the row is read and its status compared with 'stopped'.
isTaskStopped == status = "stopped"

\* processTask goes on at `next`.
Goto(next) == /\ pc' = next
              /\ UNCHANGED <<wrap, warn>>

\* processTask returns: Promise.race settles if the timer has not won it, and
\* processTaskWithTimeout clears the warning timer.
Return == /\ pc' = "done"
          /\ wrap' = IF wrap = "racing" THEN "done" ELSE wrap
          /\ warn' = IF wrap = "racing" /\ warn = "armed" THEN "cleared" ELSE warn

\* ------------------------------------------------------------- POST /api/tasks
\* The record is inserted as pending, after() schedules the branch-name generator
\* and processTaskWithTimeout is called and arms its two timers.
Agents == {"claude", "codex", "cursor", "gemini", "opencode"}

\* A prompt, a repoUrl or a selectedAgent may be left out of the body.
Prompts == {"missing", "", "fix the bug"}

RepoUrls == {"missing", "not a url", "https://github.com/o/r"}

Bodies == [prompt : Prompts, repoUrl : RepoUrls,
           selectedAgent : Agents \cup {"missing", "aider"}]

\* z.string().url()
IsUrl(text) == text = "https://github.com/o/r"

insertTaskSchemaAnyAgent(body) ==
  /\ body.prompt \notin {"missing", ""}
  /\ body.repoUrl # "missing" => IsUrl(body.repoUrl)

\* insertTaskSchema.parse succeeds: prompt is a string of at least one character,
\* repoUrl if given is a URL, selectedAgent if given is one of the five agents.
insertTaskSchema(body) ==
  /\ body.prompt \notin {"missing", ""}
  /\ body.repoUrl # "missing" => IsUrl(body.repoUrl)
  /\ body.selectedAgent # "missing" => body.selectedAgent \in Agents

\* The client posts a body to /api/tasks.
handleTaskSubmit ==
  /\ status = "absent"
  /\ hist.request = NoBody
  /\ hist.response = 0
  /\ \E body \in Bodies : hist' = [hist EXCEPT !.request = body]
  /\ UNCHANGED <<status, progress, logs, taskError, branchName, pc, wrap, warn, gen,
                 stop, stopCount, registry, loc, side>>

\* POST: a body that does not parse throws into the catch, which answers 500; else
\* the row is inserted, the generator scheduled and processTaskWithTimeout called.
POST ==
  /\ status = "absent"
  /\ hist.request # NoBody
  /\ hist.response = 0
  /\ IF insertTaskSchema(hist.request)
     THEN /\ \E deps \in BOOLEAN : loc' = [InitLoc EXCEPT !.installDependencies = deps]
          /\ status' = "pending"
          /\ progress' = 0
          /\ logs' = {}
          /\ gen' = "scheduled"
          /\ wrap' = "racing"
          /\ warn' = "armed"
          /\ pc' = "pt_start"
          /\ hist' = [hist EXCEPT !.request = NoBody, !.response = 200]
     ELSE /\ hist' = [hist EXCEPT !.response = 500]
          /\ UNCHANGED <<status, progress, logs, gen, wrap, warn, pc, loc>>
  /\ UNCHANGED <<taskError, branchName, stop, stopCount, registry, side>>

\* ------------------------------------------------------------- branch-name generator
\* after(): without AI_GATEWAY_API_KEY nothing is generated; else the first log.
GenStart ==
  /\ gen = "scheduled"
  /\ \E key \in BOOLEAN :
       IF key
       THEN /\ logs' = LogAppend(logs, "info", "generating-branch-name")
            /\ gen' = "generating"
       ELSE /\ logs' = logs
            /\ gen' = "done"
  /\ UNCHANGED <<status, progress, taskError, branchName, pc, wrap, warn, stop,
                 stopCount, registry, loc, hist, side>>

\* generateBranchName answered: the name is written to the row, whatever it holds,
\* and the success is logged.
GenWriteAI ==
  /\ gen = "generating"
  /\ branchName' = "ai"
  /\ logs' = LogAppend(logs, "success", "generated-branch-name")
  /\ gen' = "done"
  /\ UNCHANGED <<status, progress, taskError, pc, wrap, warn, stop,
                 stopCount, registry, loc, hist, side>>

\* generateBranchName threw: createFallbackBranchName(taskId) is written instead,
\* and logged.
GenWriteFallback ==
  /\ gen = "generating"
  /\ branchName' = "genFallback"
  /\ logs' = LogAppend(logs, "info", "fallback-branch-name")
  /\ gen' = "done"
  /\ hist' = [hist EXCEPT !.fallbackWrites = @ + 1]
  /\ UNCHANGED <<status, progress, taskError, pc, wrap, warn, stop,
                 stopCount, registry, loc, side>>

\* ------------------------------------------------------------- stop request
\* The stop path: an active task's status is set to stopped ...
StopRequest ==
  /\ status \in Active
  /\ stop = "idle"
  /\ stopCount < MaxStops
  /\ status' = "stopped"
  /\ stop' = "killing"
  /\ stopCount' = stopCount + 1
  /\ hist' = [hist EXCEPT !.stopBeforeCreate = @ \/ hist.created = 0,
                          !.stopAfterRegister = @ \/ hist.registered > 0]
  /\ UNCHANGED <<progress, logs, taskError, branchName, pc, wrap, warn, gen,
                 registry, loc, side>>

\* ... and killSandbox(taskId) reaches into the registry.
StopKillSandbox ==
  /\ stop = "killing"
  /\ registry' = killSandbox(registry, Self)
  /\ hist' = [hist EXCEPT !.removed = @ + Removed(registry, registry')]
  /\ stop' = "idle"
  /\ UNCHANGED <<status, progress, logs, taskError, branchName, pc, wrap, warn,
                 gen, stopCount, loc, side>>

\* ------------------------------------------------------------- other tasks
\* Another task's createSandbox registers its sandbox.
OtherRegister ==
  /\ \E o \in Others :
       /\ ~Has(registry, o)
       /\ registry' = registerSandbox(registry, o)
  /\ UNCHANGED <<status, progress, logs, taskError, branchName, pc, wrap, warn,
                 gen, stop, stopCount, loc, hist, side>>

\* Another task is stopped: killSandbox(o) may fall back to the oldest entry.
OtherKill ==
  /\ Len(registry) > 0
  /\ \E o \in Others : registry' = killSandbox(registry, o)
  /\ hist' = [hist EXCEPT !.removed = @ + Removed(registry, registry')]
  /\ UNCHANGED <<status, progress, logs, taskError, branchName, pc, wrap, warn,
                 gen, stop, stopCount, loc, side>>

\* ------------------------------------------------------------- processTaskWithTimeout
\* The 4-minute callback: the warning is logged.
WarningFire ==
  /\ warn = "armed"
  /\ logs' = LogAppend(logs, "info", "warning-4-minutes")
  /\ warn' = "done"
  /\ UNCHANGED <<status, progress, taskError, branchName, pc, wrap, gen, stop,
                 stopCount, registry, loc, hist, side>>

WarningDelayLate == 6 * 60 * 1000

\* The delay of the warning timer, in milliseconds.
WarningDelay == 4 * 60 * 1000

TASK_TIMEOUT_MS == 5 * 60 * 1000

\* The 5-minute timer rejects while the race is open (of two timers armed together
\* the one with the shorter delay fires first, so the warning, if still armed, has
\* fired); processTask keeps running.  The catch of processTaskWithTimeout clears
\* the warning timer and logs the timeout.
TimerFire ==
  /\ wrap = "racing"
  /\ warn = "armed" => TASK_TIMEOUT_MS < WarningDelay
  /\ logs' = LogAppend(logs, "error", "timed-out")
  /\ wrap' = "timeoutStatus"
  /\ warn' = IF warn = "armed" THEN "cleared" ELSE warn
  /\ UNCHANGED <<status, progress, taskError, branchName, pc, gen, stop,
                 stopCount, registry, loc, hist, side>>

TimeoutStatusKept(cur) == cur

\* The status the timeout handler writes.
TimeoutStatus(cur) == updateStatus(cur, "error")

TimeoutUpdateStatus ==
  /\ wrap = "timeoutStatus"
  /\ status' = TimeoutStatus(status)
  /\ taskError' = "timed-out"
  /\ wrap' = "done"
  /\ UNCHANGED <<progress, logs, branchName, pc, warn, gen, stop, stopCount,
                 registry, loc, hist, side>>

\* ------------------------------------------------------------- processTask: start
\* What the concurrent handlers own and processTask never touches.
env == <<gen, stop, stopCount, side>>

ProgressInit == 10
ProgressSandboxStartLate == 20 + 5
ProgressSandboxStart == 15
ProgressValidateEnv == 20
ProgressValidateConfig == 25
ProgressSandboxCreated == 30
ProgressInstall == 35
ProgressNpmFallback == 37
ProgressAgent == 50
ProgressDoneShort == 100 - 1
ProgressDone == 100

PT_UpdateStatusProcessing ==
  /\ pc = "pt_start"
  /\ status' = updateStatus(status, "processing")
  /\ logs' = LogAppend(logs, "info", "task-created")
  /\ Goto("pt_progress10")
  /\ UNCHANGED <<progress, taskError, branchName, registry, loc, hist, env>>

PT_UpdateProgressInit ==
  /\ pc = "pt_progress10"
  /\ progress' = updateProgress(progress, ProgressInit)
  /\ Goto("pt_check1")
  /\ UNCHANGED <<status, logs, taskError, branchName, registry, loc, hist, env>>

PT_CheckStoppedBeforeStart ==
  /\ pc = "pt_check1"
  /\ IF isTaskStopped
     THEN /\ logs' = LogAppend(logs, "info", "stopped-before-execution")
          /\ Return
     ELSE /\ logs' = logs
          /\ Goto("pt_wait")
  /\ UNCHANGED <<status, progress, taskError, branchName, registry, loc, hist, env>>

\* waitForBranchName: the persisted name as soon as a poll sees one, null once
\* the 10 seconds are over without one.
PT_WaitForBranchName ==
  /\ pc = "pt_wait"
  /\ loc' = [loc EXCEPT !.aiBranchName = branchName]
  /\ hist' = [hist EXCEPT !.waitExpired = (branchName = "none")]
  /\ Goto("pt_check2")
  /\ UNCHANGED <<status, progress, logs, taskError, branchName, registry, env>>

PT_CheckStoppedAfterWait ==
  /\ pc = "pt_check2"
  /\ IF isTaskStopped
     THEN /\ logs' = LogAppend(logs, "info", "stopped-during-branch-name")
          /\ Return
     ELSE /\ logs' = logs
          /\ Goto("pt_progress15")
  /\ UNCHANGED <<status, progress, taskError, branchName, registry, loc, hist, env>>

PT_UpdateProgressSandbox ==
  /\ pc = "pt_progress15"
  /\ progress' = updateProgress(progress, ProgressSandboxStart)
  /\ Goto("cs_check0")
  /\ UNCHANGED <<status, logs, taskError, branchName, registry, loc, hist, env>>

\* ------------------------------------------------------------- createSandbox
\* createSandbox returns: its locals are gone.
Leave(l) == [l EXCEPT !.packageManager = InitLoc.packageManager,
                      !.installOk = InitLoc.installOk,
                      !.npmRetries = InitLoc.npmRetries]

CancelledOutcomeThrown == "cs_catch"

\* return {success: false, cancelled: true}: processTask takes its branch
\* if (sandboxResult.cancelled).
CancelledOutcome == "pt_cancelled"

\* A cancellation checkpoint of createSandbox: {success: false, cancelled: true}
\* when the task is stopped, else on to `next`.
Checkpoint(at, msg, next) ==
  /\ pc = at
  /\ IF isTaskStopped
     THEN /\ logs' = LogAppend(logs, "info", msg)
          /\ loc' = Leave(loc)
          /\ Goto(CancelledOutcome)
     ELSE /\ logs' = logs
          /\ loc' = loc
          /\ Goto(next)
  /\ UNCHANGED <<status, progress, taskError, branchName, registry, hist, env>>

\* config.onProgress(value, message)
OnProgress(at, value, next) ==
  /\ pc = at
  /\ progress' = updateProgress(progress, value)
  /\ Goto(next)
  /\ UNCHANGED <<status, logs, taskError, branchName, registry, loc, hist, env>>

\* A step of createSandbox throws: the catch of createSandbox is entered with msg.
Throw(msg) ==
  /\ loc' = [loc EXCEPT !.errMsg = msg]
  /\ Goto("cs_catch")

CS_CheckCancelBeforeCreate ==
  Checkpoint("cs_check0", "cancelled-before-sandbox-creation", "cs_progress20")

CS_ProgressValidateEnv == OnProgress("cs_progress20", ProgressValidateEnv, "cs_validate")

CS_ValidateEnv ==
  /\ pc = "cs_validate"
  /\ \E valid \in BOOLEAN :
       IF valid
       THEN /\ loc' = loc
            /\ Goto("cs_progress25")
       ELSE Throw("env-invalid")
  /\ UNCHANGED <<status, progress, logs, taskError, branchName, registry, hist, env>>

CS_ProgressValidateConfig ==
  OnProgress("cs_progress25", ProgressValidateConfig, "cs_create")

\* Sandbox.create(sandboxConfig)
CS_SandboxCreate ==
  /\ pc = "cs_create"
  /\ \E outcome \in {"created", "create-failed", "create-timeout"} :
       IF outcome = "created"
       THEN /\ hist' = [hist EXCEPT !.created = @ + 1]
            /\ logs' = logs
            /\ loc' = loc
            /\ Goto("cs_register")
       ELSE /\ hist' = hist
            /\ logs' = LogAppend(logs, "error", outcome)
            /\ Throw(outcome)
  /\ UNCHANGED <<status, progress, taskError, branchName, registry, env>>

CS_RegisterSandbox ==
  /\ pc = "cs_register"
  /\ registry' = registerSandbox(registry, Self)
  /\ hist' = [hist EXCEPT !.registered = @ + 1]
  /\ Goto("cs_check1")
  /\ UNCHANGED <<status, progress, logs, taskError, branchName, loc, env>>

CS_CheckCancelAfterCreate ==
  Checkpoint("cs_check1", "cancelled-after-sandbox-creation", "cs_progress30")

CS_ProgressSandboxCreated ==
  OnProgress("cs_progress30", ProgressSandboxCreated, "cs_probe")

\* The project type decides the install section.
InstallSection(deps, packageJson, requirementsTxt) ==
  IF ~deps THEN "cs_check3"
  ELSE IF packageJson THEN "cs_detect"
  ELSE IF requirementsTxt THEN "cs_pyProgress35"
  ELSE "cs_check3"

CS_ProbeProject ==
  /\ pc = "cs_probe"
  /\ \E packageJson \in BOOLEAN, requirementsTxt \in BOOLEAN :
       Goto(InstallSection(loc.installDependencies, packageJson, requirementsTxt))
  /\ UNCHANGED <<status, progress, logs, taskError, branchName, registry, loc, hist, env>>

detectPackageManagerYarnFirst(pnpmLock, yarnLock, npmLock) ==
  IF yarnLock THEN "yarn" ELSE IF pnpmLock THEN "pnpm" ELSE "npm"

\* detectPackageManager: the lock files in their order of preference.
detectPackageManager(pnpmLock, yarnLock, npmLock) ==
  IF pnpmLock THEN "pnpm" ELSE IF yarnLock THEN "yarn" ELSE "npm"

CS_DetectPackageManager ==
  /\ pc = "cs_detect"
  /\ \E pnpmLock \in BOOLEAN, yarnLock \in BOOLEAN, npmLock \in BOOLEAN :
       LET pm == detectPackageManager(pnpmLock, yarnLock, npmLock) IN
         /\ loc' = [loc EXCEPT !.packageManager = pm]
         /\ Goto(IF pm = "npm" THEN "cs_progress35" ELSE "cs_which")
  /\ UNCHANGED <<status, progress, logs, taskError, branchName, registry, hist, env>>

\* which pnpm / which yarn
CS_WhichManager ==
  /\ pc = "cs_which"
  /\ \E found \in BOOLEAN : Goto(IF found THEN "cs_progress35" ELSE "cs_globalInstall")
  /\ UNCHANGED <<status, progress, logs, taskError, branchName, registry, loc, hist, env>>

\* npm install -g pnpm / yarn
CS_GlobalInstall ==
  /\ pc = "cs_globalInstall"
  /\ \E ok \in BOOLEAN :
       IF ok
       THEN /\ logs' = logs
            /\ hist' = hist
            /\ Goto("cs_progress35")
       ELSE /\ logs' = LogAppend(logs, "error", "global-install-failed")
            /\ hist' = [hist EXCEPT !.depFail = TRUE]
            /\ Goto("cs_npmEarly")
  /\ UNCHANGED <<status, progress, taskError, branchName, registry, loc, env>>

InstallResults == {"installed", "install-failed", "install-timed-out"}

\* installDependencies(sandbox, packageManager, logger): the race of the install
\* command with its 3-minute timer, and what it logs: an info entry for a
\* success, an error entry for a failure and for a timeout alike.
installDependencies(l, result) ==
  IF result = "installed" THEN LogAppend(l, "info", result)
  ELSE LogAppend(l, "error", "install-failed")

InstallThrows(at, result, next) ==
  IF result = "installed" THEN Goto(next) ELSE Goto("cs_catch")

\* createSandbox after an installDependencies call made at `at`: a failure is
\* tolerated and the run goes on at `next`.
InstallContinues(at, result, next) == Goto(next)

CS_NpmEarlyFallback ==
  /\ pc = "cs_npmEarly"
  /\ \E result \in InstallResults :
       /\ logs' = installDependencies(logs, result)
       /\ hist' = [hist EXCEPT !.depFail = @ \/ result # "installed"]
       /\ InstallContinues("cs_npmEarly", result, "cs_progress35")
  /\ loc' = [loc EXCEPT !.npmRetries = @ + 1]
  /\ UNCHANGED <<status, progress, taskError, branchName, registry, env>>

CS_ProgressInstall == OnProgress("cs_progress35", ProgressInstall, "cs_install")

CS_InstallDependencies ==
  /\ pc = "cs_install"
  /\ \E result \in InstallResults :
       /\ logs' = installDependencies(logs, result)
       /\ hist' = [hist EXCEPT !.depFail = @ \/ result # "installed"]
       /\ loc' = [loc EXCEPT !.installOk = (result = "installed")]
       /\ InstallContinues("cs_install", result, "cs_check2")
  /\ UNCHANGED <<status, progress, taskError, branchName, registry, env>>

\* After the install: npm is retried unless npm was the manager that failed.
AfterInstall(installOk, pm) ==
  IF ~installOk /\ pm # "npm" THEN "cs_progress37" ELSE "cs_check3"

CS_CheckCancelAfterInstall ==
  Checkpoint("cs_check2", "cancelled-after-dependency-installation",
             AfterInstall(loc.installOk, loc.packageManager))

CS_ProgressNpmFallback == OnProgress("cs_progress37", ProgressNpmFallback, "cs_npmFallback")

CS_NpmFallback ==
  /\ pc = "cs_npmFallback"
  /\ \E result \in InstallResults :
       /\ logs' = installDependencies(logs, result)
       /\ hist' = [hist EXCEPT !.depFail = @ \/ result # "installed"]
       /\ InstallContinues("cs_npmFallback", result, "cs_check3")
  /\ loc' = [loc EXCEPT !.npmRetries = @ + 1]
  /\ UNCHANGED <<status, progress, taskError, branchName, registry, env>>

CS_ProgressPython == OnProgress("cs_pyProgress35", ProgressInstall, "cs_pip")

\* pip --version, get-pip.py, apt-get install python3-pip, pip install --upgrade pip
CS_PipSetup ==
  /\ pc = "cs_pip"
  /\ \E ok \in BOOLEAN :
       /\ hist' = [hist EXCEPT !.depFail = @ \/ ~ok]
       /\ Goto("cs_pipInstall")
  /\ UNCHANGED <<status, progress, logs, taskError, branchName, registry, loc, env>>

\* pip install -r requirements.txt
CS_PipInstall ==
  /\ pc = "cs_pipInstall"
  /\ \E ok \in BOOLEAN :
       /\ hist' = [hist EXCEPT !.depFail = @ \/ ~ok]
       /\ logs' = LogAppend(logs, "info", IF ok THEN "pip-installed" ELSE "pip-install-failed")
       /\ Goto("cs_check3")
  /\ UNCHANGED <<status, progress, taskError, branchName, registry, loc, env>>

CS_CheckCancelBeforeGit ==
  Checkpoint("cs_check3", "cancelled-before-git-configuration", "cs_git")

\* git config, git rev-parse --git-dir, and git init when there is no repository.
CS_GitSetup ==
  /\ pc = "cs_git"
  /\ \E ok \in BOOLEAN :
       IF ok
       THEN /\ loc' = loc
            /\ Goto("cs_branch")
       ELSE Throw("git-init-failed")
  /\ UNCHANGED <<status, progress, logs, taskError, branchName, registry, hist, env>>

ResolvedBranchFresh(preDetermined) == "provFallback"

\* The branch createSandbox works on: the predetermined name, else timestamp + random suffix.
ResolvedBranch(preDetermined) ==
  IF preDetermined # "none" THEN preDetermined ELSE "provFallback"

\* git checkout of the resolved branch through runAndLogCommand; a failure is fatal.
CS_ResolveBranch ==
  /\ pc = "cs_branch"
  /\ \E ok \in BOOLEAN :
       IF ok
       THEN /\ logs' = LogAppend(logs, "command", "git-checkout")
            /\ loc' = [Leave(loc) EXCEPT !.resultBranch = ResolvedBranch(loc.aiBranchName)]
            /\ Goto("pt_check3")
       ELSE /\ logs' = LogAppend(LogAppend(logs, "command", "git-checkout"),
                                 "error", "git-checkout-failed")
            /\ Throw("branch-failed")
  /\ UNCHANGED <<status, progress, taskError, branchName, registry, hist, env>>

\* catch of createSandbox: the error is logged and returned, {success: false, error};
\* processTask throws it into its own catch.
CS_Catch ==
  /\ pc = "cs_catch"
  /\ logs' = LogAppend(logs, "error", loc.errMsg)
  /\ loc' = Leave(loc)
  /\ Goto("pt_catch")
  /\ UNCHANGED <<status, progress, taskError, branchName, registry, hist, env>>

\* ------------------------------------------------------------- processTask: after createSandbox
\* sandboxResult.cancelled: processTask returns, the status is left alone.
PT_SandboxCancelled ==
  /\ pc = "pt_cancelled"
  /\ logs' = LogAppend(logs, "info", "cancelled-during-sandbox-creation")
  /\ Return
  /\ UNCHANGED <<status, progress, taskError, branchName, registry, loc, hist, env>>

PT_CheckStoppedAfterCreate ==
  /\ pc = "pt_check3"
  /\ IF isTaskStopped
     THEN /\ logs' = LogAppend(logs, "info", "stopped-during-sandbox-creation")
          /\ loc' = loc
          /\ Goto("pt_stopShutdown")
     ELSE /\ logs' = logs
          /\ loc' = [loc EXCEPT !.sandbox = TRUE]
          /\ Goto("pt_updateTask")
  /\ UNCHANGED <<status, progress, taskError, branchName, registry, hist, env>>

\* shutdownSandbox(sandboxResult.sandbox) of the stop branch, then return.
PT_StopShutdown ==
  /\ pc = "pt_stopShutdown"
  /\ hist' = [hist EXCEPT !.shutdowns = @ + 1]
  /\ Return
  /\ UNCHANGED <<status, progress, logs, taskError, branchName, registry, loc, env>>

\* updateData.branchName is set only when waitForBranchName returned null.
BranchUpdate(aiBranchName, resultBranch, persisted) ==
  IF aiBranchName = "none" THEN resultBranch ELSE persisted

PT_UpdateTask ==
  /\ pc = "pt_updateTask"
  /\ branchName' = BranchUpdate(loc.aiBranchName, loc.resultBranch, branchName)
  /\ hist' = [hist EXCEPT !.fallbackWrites = IF loc.aiBranchName = "none" THEN @ + 1 ELSE @]
  /\ Goto("pt_check4")
  /\ UNCHANGED <<status, progress, logs, taskError, registry, loc, env>>

PT_CheckStoppedBeforeAgent ==
  /\ pc = "pt_check4"
  /\ IF isTaskStopped
     THEN /\ logs' = LogAppend(logs, "info", "stopped-before-agent-execution")
          /\ Return
     ELSE /\ logs' = logs
          /\ Goto("pt_progress50")
  /\ UNCHANGED <<status, progress, taskError, branchName, registry, loc, hist, env>>

PT_UpdateProgressAgent ==
  /\ pc = "pt_progress50"
  /\ progress' = updateProgress(progress, ProgressAgent)
  /\ Goto("pt_agent")
  /\ UNCHANGED <<status, logs, taskError, branchName, registry, loc, hist, env>>

\* executeAgentInSandbox is called and raced with the per-agent timer.
PT_StartAgent ==
  /\ pc = "pt_agent"
  /\ hist' = [hist EXCEPT !.agentInvoked = TRUE]
  /\ Goto("pt_agentWait")
  /\ UNCHANGED <<status, progress, logs, taskError, branchName, registry, loc, env>>

\* The working tree the agent leaves behind.
Trees == {"clean", "dirty"}

\* git status --porcelain: the changed paths of the tree, nothing for a clean tree.
Porcelain(tree) == IF tree = "dirty" THEN "M file" ELSE ""

hasChangesIgnoringOutput(success, output) == success

\* hasChanges of the agents: gitStatusCheck.success && gitStatusCheck.output?.trim()
hasChanges(success, output) == success /\ output # ""

AfterAgentRaceTimeoutPasses(result) ==
  IF result = "agent-failed" THEN "pt_catch" ELSE "pt_push"

\* Where processTask goes on once the race has settled: a result with success is
\* published; a result without success throws, and the rejection of the agent
\* timer is thrown by the await itself, both into the catch of processTask.
AfterAgentRace(result) ==
  IF result = "agent-succeeded" THEN "pt_push" ELSE "pt_catch"

\* The race settles: the agent's result, or the rejection of the agent timer.  The
\* agent derives changesDetected from git status after its CLI ran; the result of
\* a failed agent is thrown away but for its error.
PT_AgentResult ==
  /\ pc = "pt_agentWait"
  /\ \E result \in {"agent-succeeded", "agent-failed", "agent-timed-out"},
        tree \in Trees, statusOk \in BOOLEAN :
       LET detected == hasChanges(statusOk, Porcelain(tree)) IN
       IF result = "agent-succeeded"
       THEN /\ logs' = LogAppend(logs, "success", "agent-completed")
            /\ hist' = [hist EXCEPT !.agentSuccess = TRUE, !.tree = tree]
            /\ loc' = [loc EXCEPT !.changesDetected = detected]
            /\ Goto(AfterAgentRace(result))
       ELSE /\ logs' = IF result = "agent-failed"
                       THEN LogAppend(logs, "error", "agent-failed") ELSE logs
            /\ hist' = hist
            /\ loc' = [loc EXCEPT !.errMsg = result]
            /\ Goto(AfterAgentRace(result))
  /\ UNCHANGED <<status, progress, taskError, branchName, registry, env>>

PushResults == {"clean", "add-failed", "commit-failed", "git-threw", "pushed",
                "push-denied", "push-rejected"}

\* The results in which pushChangesToBranch returns {success: false}.
HardGitFailures == {"add-failed", "commit-failed", "git-threw"}

\* What pushChangesToBranch can come to on a tree: with nothing in the output of
\* git status it returns at once, unless the command itself throws.
PushOutcomes(tree) ==
  IF Porcelain(tree) = "" THEN {"clean", "git-threw"} ELSE PushResults \ {"clean"}

\* The git commands pushChangesToBranch has run when it returns with `result`
\* (a throw is taken at the first command).
GitCommands(result) ==
  IF result \in {"clean", "git-threw"} THEN {"status"}
  ELSE IF result = "add-failed" THEN {"status", "add"}
  ELSE IF result = "commit-failed" THEN {"status", "add", "commit"}
  ELSE {"status", "add", "commit", "push"}

\* pushChangesToBranch: {success, pushFailed} of each outcome of git status / add /
\* commit / push.
pushChangesToBranch(result) ==
  [success |-> result \notin HardGitFailures,
   pushFailed |-> result \in {"push-denied", "push-rejected"}]

\* What pushChangesToBranch logs.
PushLog(l, result) ==
  IF result = "clean" THEN LogAppend(l, "info", "no-changes")
  ELSE IF result \in HardGitFailures THEN LogAppend(l, "info", "git-failed")
  ELSE IF result = "pushed" THEN LogAppend(l, "info", "pushed")
  ELSE IF result = "push-denied"
       THEN LogAppend(LogAppend(l, "info", "push-failed-reason"), "info", "permission-note")
  ELSE LogAppend(l, "info", "push-failed-reason")

PT_PushChanges ==
  /\ pc = "pt_push"
  /\ \E result \in PushOutcomes(hist.tree) :
       /\ logs' = PushLog(logs, result)
       /\ loc' = [loc EXCEPT !.pushFailed = pushChangesToBranch(result).pushFailed,
                             !.pushSuccess = pushChangesToBranch(result).success]
       /\ hist' = [hist EXCEPT !.pushReason = result, !.gitCmds = GitCommands(result),
                               !.pushBranch = loc.resultBranch]
  /\ Goto("pt_shutdown")
  /\ UNCHANGED <<status, progress, taskError, branchName, registry, env>>

\* unregisterSandbox(taskId), shutdownSandbox(sandbox) and its log.
PT_UnregisterShutdown ==
  /\ pc = "pt_shutdown"
  /\ registry' = unregisterSandbox(registry, Self)
  /\ hist' = [hist EXCEPT !.shutdowns = @ + 1,
                          !.removed = @ + Removed(registry, registry')]
  /\ logs' = LogAppend(logs, "success", "sandbox-shutdown")
  /\ Goto("pt_afterPush")
  /\ UNCHANGED <<status, progress, taskError, branchName, loc, env>>

PushFailedIgnoringFlag(success, pushFailed) == ~success

\* if (pushResult.pushFailed)
PushFailed(success, pushFailed) == pushFailed

PT_AfterPush ==
  /\ pc = "pt_afterPush"
  /\ IF PushFailed(loc.pushSuccess, loc.pushFailed)
     THEN /\ status' = updateStatus(status, "error")
          /\ Goto("pt_pushFailLog")
     ELSE /\ status' = updateStatus(status, "completed")
          /\ Goto("pt_progress100")
  /\ UNCHANGED <<progress, logs, taskError, branchName, registry, loc, hist, env>>

PT_PushFailLog ==
  /\ pc = "pt_pushFailLog"
  /\ logs' = LogAppend(logs, "error", "unable-to-push")
  /\ loc' = [loc EXCEPT !.errMsg = "push-failed"]
  /\ Goto("pt_catch")
  /\ UNCHANGED <<status, progress, taskError, branchName, registry, hist, env>>

PT_UpdateProgressDone ==
  /\ pc = "pt_progress100"
  /\ progress' = updateProgress(progress, ProgressDone)
  /\ Return
  /\ UNCHANGED <<status, logs, taskError, branchName, registry, loc, hist, env>>

\* catch of processTask: the sandbox, when processTask holds one, is unregistered
\* and shut down.
PT_CatchShutdown ==
  /\ pc = "pt_catch"
  /\ IF loc.sandbox
     THEN /\ registry' = unregisterSandbox(registry, Self)
          /\ hist' = [hist EXCEPT !.shutdowns = @ + 1,
                                  !.removed = @ + Removed(registry, registry')]
          /\ logs' = LogAppend(logs, "info", "sandbox-shutdown-after-error")
     ELSE /\ registry' = registry
          /\ hist' = hist
          /\ logs' = logs
  /\ Goto("pt_catchLog")
  /\ UNCHANGED <<status, progress, taskError, branchName, loc, env>>

PT_CatchLog ==
  /\ pc = "pt_catchLog"
  /\ logs' = LogAppend(logs, "error", loc.errMsg)
  /\ Goto("pt_catchStatus")
  /\ UNCHANGED <<status, progress, taskError, branchName, registry, loc, hist, env>>

PT_CatchStatus ==
  /\ pc = "pt_catchStatus"
  /\ status' = updateStatus(status, "error")
  /\ taskError' = loc.errMsg
  /\ Return
  /\ UNCHANGED <<progress, logs, branchName, registry, loc, hist, env>>

\* ------------------------------------------------------------- specification
ProcessTask ==
  \/ PT_UpdateStatusProcessing \/ PT_UpdateProgressInit \/ PT_CheckStoppedBeforeStart
  \/ PT_WaitForBranchName \/ PT_CheckStoppedAfterWait \/ PT_UpdateProgressSandbox
  \/ PT_SandboxCancelled \/ PT_CheckStoppedAfterCreate \/ PT_StopShutdown
  \/ PT_UpdateTask \/ PT_CheckStoppedBeforeAgent \/ PT_UpdateProgressAgent
  \/ PT_StartAgent \/ PT_AgentResult \/ PT_PushChanges \/ PT_UnregisterShutdown
  \/ PT_AfterPush \/ PT_PushFailLog \/ PT_UpdateProgressDone \/ PT_CatchShutdown
  \/ PT_CatchLog \/ PT_CatchStatus

CreateSandbox ==
  \/ CS_CheckCancelBeforeCreate \/ CS_ProgressValidateEnv \/ CS_ValidateEnv
  \/ CS_ProgressValidateConfig \/ CS_SandboxCreate \/ CS_RegisterSandbox
  \/ CS_CheckCancelAfterCreate \/ CS_ProgressSandboxCreated \/ CS_ProbeProject
  \/ CS_DetectPackageManager \/ CS_WhichManager \/ CS_GlobalInstall
  \/ CS_NpmEarlyFallback \/ CS_ProgressInstall \/ CS_InstallDependencies
  \/ CS_CheckCancelAfterInstall \/ CS_ProgressNpmFallback \/ CS_NpmFallback
  \/ CS_ProgressPython \/ CS_PipSetup \/ CS_PipInstall \/ CS_CheckCancelBeforeGit
  \/ CS_GitSetup \/ CS_ResolveBranch \/ CS_Catch

Generator == GenStart \/ GenWriteAI \/ GenWriteFallback

Timers == WarningFire \/ TimerFire \/ TimeoutUpdateStatus

Stop == StopRequest \/ StopKillSandbox

OtherTasks == OtherRegister \/ OtherKill

\* One task from its creation to the end of its run, with everything that runs
\* beside it on the task's own row.
Next == handleTaskSubmit \/ POST \/ ProcessTask \/ CreateSandbox \/ Generator \/ Timers \/ Stop

Spec == Init /\ [][Next]_vars

\* The same run seen from the process-wide registry: other tasks register and
\* kill sandboxes beside it (the branch-name generator, which touches neither the
\* registry nor the status, is left out).
NextRegistry == handleTaskSubmit \/ POST \/ ProcessTask \/ CreateSandbox \/ Timers \/ Stop \/ OtherTasks

RegistrySpec == Init /\ [][NextRegistry]_vars

\* Timers fire and the database writes of the timeout handler complete; nothing
\* is assumed of processTask, whose external calls may never return.
LiveSpec ==
  /\ Spec
  /\ WF_vars(WarningFire)
  /\ WF_vars(TimerFire)
  /\ WF_vars(TimeoutUpdateStatus)

\* As LiveSpec, and every call processTask and createSandbox await returns, so
\* that processTask runs to its end.
ReturningSpec ==
  /\ LiveSpec
  /\ WF_vars(ProcessTask)
  /\ WF_vars(CreateSandbox)

\* ------------------------------------------------------------- logging call sites
\* The texts a sandbox command handles: one free of secrets, one holding a secret.
Secret == "tok_ABCDEF123"

Placeholder == "[REDACTED]"

Texts == {"plain", Secret}

\* redactSensitiveInfo(text): a known secret value is replaced by a placeholder.
redactSensitiveInfo(text) == IF text = Secret THEN Placeholder ELSE text

\* A template literal around ${text}: the text is in the message as it stands.
Interpolate(text) == text

\* runCommandInSandbox returned: the command string, the captured output and the
\* captured error of the command.
RunCommandInSandbox ==
  /\ \E c \in Texts, o \in Texts, e \in Texts :
       captured' = [command |-> c, output |-> o, error |-> e]
  /\ UNCHANGED <<status, progress, logs, taskError, branchName, pc, wrap, warn, gen,
                 stop, stopCount, registry, loc, hist, journal, writers, table, reply,
                 setup>>

\* What a logging call site leaves alone.
siteFrame == <<progress, branchName, pc, wrap, warn, gen, stop, stopCount, registry,
               loc, hist, side>>

\* runAndLogCommand of the provisioner and of the agents: command, output and
\* error are redacted, then logged.
RunAndLogCommand ==
  /\ captured # NoResult
  /\ logs' = LogAppend(LogAppend(LogAppend(logs,
                "command", redactSensitiveInfo(captured.command)),
                "info", redactSensitiveInfo(captured.output)),
                "error", redactSensitiveInfo(captured.error))
  /\ UNCHANGED <<status, taskError, siteFrame>>

\* executeCursorInSandbox: logger.command(logCommand), the command string with
\* the instruction in it.
CursorLogsCommand ==
  /\ captured # NoResult
  /\ logs' = LogAppend(logs, "command", Interpolate(captured.command))
  /\ UNCHANGED <<status, taskError, siteFrame>>

\* The agents after their CLI ran: the output is redacted and logged, and
\* logger.error(`Claude CLI error: ${result.error}`) follows.
AgentLogsCliResult ==
  /\ captured # NoResult
  /\ logs' = LogAppend(LogAppend(logs,
                "info", redactSensitiveInfo(captured.output)),
                "error", Interpolate(captured.error))
  /\ UNCHANGED <<status, taskError, siteFrame>>

\* installDependencies after a failed install: logger.error of stdout and stderr.
InstallLogsOutput ==
  /\ captured # NoResult
  /\ logs' = LogAppend(LogAppend(logs, "error", Interpolate(captured.output)),
                       "error", Interpolate(captured.error))
  /\ UNCHANGED <<status, taskError, siteFrame>>

\* createSandbox: logger.info of the output of git status, git branch -a, git pull.
ProvisionerLogsGitState ==
  /\ captured # NoResult
  /\ logs' = LogAppend(logs, "info", Interpolate(captured.output))
  /\ UNCHANGED <<status, taskError, siteFrame>>

\* pushChangesToBranch: logger.info of the error of git add, commit and push.
PublisherLogsError ==
  /\ captured # NoResult
  /\ logs' = LogAppend(logs, "info", Interpolate(captured.error))
  /\ UNCHANGED <<status, taskError, siteFrame>>

\* agentResponse of a successful agent result: result.output.
AgentResponse(result) == result.output

\* error of a failed agent result: `... failed (exit code n): ${result.error}`.
AgentError(result) == Interpolate(result.error)

\* processTask: logger.info(`Agent Response: ${agentResult.agentResponse}`)
PT_LogAgentResponse ==
  /\ captured # NoResult
  /\ logs' = LogAppend(logs, "info", Interpolate(AgentResponse(captured)))
  /\ UNCHANGED <<status, taskError, siteFrame>>

\* catch of processTask: errorMessage is the message of the thrown error; it is
\* logged and written to the error field with the status.
PT_CatchErrorMessage ==
  /\ captured # NoResult
  /\ logs' = LogAppend(logs, "error", Interpolate(AgentError(captured)))
  /\ status' = updateStatus(status, "error")
  /\ taskError' = AgentError(captured)
  /\ UNCHANGED siteFrame

\* A task being processed; no command has run yet.
InitSites ==
  /\ status = "processing"
  /\ progress = ProgressInit
  /\ logs = LogAppend({}, "info", "task-created")
  /\ taskError = "none"
  /\ branchName = "none"
  /\ pc = "pt_check1"
  /\ wrap = "racing"
  /\ warn = "armed"
  /\ gen = "scheduled"
  /\ stop = "idle"
  /\ stopCount = 0
  /\ registry = <<>>
  /\ loc = InitLoc
  /\ hist = InitHist
  /\ captured = NoResult
  /\ journal = <<>>
  /\ writers = NoCalls
  /\ table = NoRows
  /\ reply = NoReply
  /\ setup = NoSetup

NextSites ==
  \/ RunCommandInSandbox \/ RunAndLogCommand \/ CursorLogsCommand
  \/ AgentLogsCliResult \/ InstallLogsOutput \/ ProvisionerLogsGitState
  \/ PublisherLogsError \/ PT_LogAgentResponse \/ PT_CatchErrorMessage

\* The logging call sites of the provisioner, the agents, the publisher and the
\* orchestrator, each applied to the results of sandbox commands.
SitesSpec == InitSites /\ [][NextSites]_vars

\* ------------------------------------------------------------- log writers
\* The writers that await every logger call: the logger of processTask, the
\* logger of the branch-name generator in after() and the logger of the 4-minute
\* warning, each made by createTaskLogger(taskId).
AwaitingWriters == {"processTask", "generator", "warning"}

\* The stdout callback of the Cursor agent calls logger.info and does not await it.
CallbackWriter == "cursor"

\* The calls writer w has made.
CallsOf(w) == {c \in writers.made : c[1] = w}

LogStoreReplacingLast(j, entry) ==
  IF j = <<>> THEN <<entry>> ELSE [j EXCEPT ![Len(j)] = entry]

\* The logger stores an entry: it goes to the end of the task's log.
LogStore(j, entry) == Append(j, entry)

logFrame == <<status, progress, logs, taskError, branchName, pc, wrap, warn, gen,
              stop, stopCount, registry, loc, hist, captured, table, reply, setup>>

\* await logger.info(...): the writer calls once its previous call has returned.
AwaitedLoggerCall(w) ==
  /\ Cardinality(CallsOf(w)) < MaxCalls
  /\ \A c \in writers.inflight : c[1] # w
  /\ LET c == <<w, Cardinality(CallsOf(w)) + 1>> IN
       writers' = [made |-> writers.made \cup {c},
                   inflight |-> writers.inflight \cup {c}]
  /\ UNCHANGED <<journal, logFrame>>

PT_LoggerCall == AwaitedLoggerCall("processTask")

Gen_LoggerCall == AwaitedLoggerCall("generator")

Warning_LoggerCall == AwaitedLoggerCall("warning")

\* logger.info('Detected completion in captured output') in the write callback of
\* captureStdout: the callback goes on without the call having returned.
Cursor_LoggerCall ==
  /\ Cardinality(CallsOf(CallbackWriter)) < MaxCallbackCalls
  /\ LET c == <<CallbackWriter, Cardinality(CallsOf(CallbackWriter)) + 1>> IN
       writers' = [made |-> writers.made \cup {c},
                   inflight |-> writers.inflight \cup {c}]
  /\ UNCHANGED <<journal, logFrame>>

\* The logger serves a call: the entry is created, stamped with its place in
\* time, and stored; the call returns.
LoggerStore ==
  /\ \E c \in writers.inflight :
       /\ journal' = LogStore(journal, [call |-> c, stamp |-> Len(journal) + 1])
       /\ writers' = [writers EXCEPT !.inflight = @ \ {c}]
  /\ UNCHANGED logFrame

NextLog ==
  \/ PT_LoggerCall \/ Gen_LoggerCall \/ Warning_LoggerCall \/ Cursor_LoggerCall
  \/ LoggerStore

\* The writers of one task's log beside each other.
LogSpec == InitSites /\ [][NextLog]_vars

\* ------------------------------------------------------------- DELETE /api/tasks
RowIds == 1..MaxRows

\* tasks.status
Statuses == {"pending", "processing", "completed", "error", "stopped"}

\* The action parameter after split(',') and trim: the values asked for; none
\* when the parameter is missing or empty.
ActionTokens == {"completed", "failed", "stopped", "pending"}

ActionParams ==
  UNION {[1..n -> ActionTokens] : n \in 0..MaxActions}

validActionsAndPending == {"completed", "failed", "stopped", "pending"}

validActions == {"completed", "failed", "stopped"}

\* The status an action stands for in the where clause.
StatusOf(action) == IF action = "failed" THEN "error" ELSE action

\* The statuses of the where clause built from the actions.
Conditions(actions) == {StatusOf(actions[i]) : i \in 1..Len(actions)}

deleteFrame == <<status, progress, logs, taskError, branchName, pc, wrap, warn, gen,
                 stop, stopCount, registry, loc, hist, captured, journal, writers,
                 setup>>

\* DELETE /api/tasks?action=...: 400 without the parameter or with a value that is
\* not valid; else the rows whose status is one of the conditions are deleted; 500
\* when the database call throws.
DELETE ==
  /\ \E actions \in ActionParams :
       LET invalidActions == {i \in 1..Len(actions) : actions[i] \notin validActions}
           answer(code) == [action |-> actions, code |-> code,
                            serial |-> 1 - reply.serial] IN
         IF actions = <<>> \/ invalidActions # {}
         THEN /\ reply' = answer(400)
              /\ table' = table
         ELSE \/ /\ reply' = answer(200)
                 /\ table' = [t \in RowIds |->
                                IF table[t] \in Conditions(actions) THEN "deleted"
                                ELSE table[t]]
              \/ /\ reply' = answer(500)
                 /\ table' = table
  /\ UNCHANGED deleteFrame

\* The run of a task writes its status: a pending or processing task moves on.
RowStatusWrite ==
  /\ \E t \in RowIds, new \in Statuses \ {"pending"} :
       /\ table[t] \in Active
       /\ table[t] # new
       /\ table' = [table EXCEPT ![t] = new]
  /\ UNCHANGED <<reply, deleteFrame>>

\* A tasks table of pending tasks; no DELETE answered yet.
InitDelete ==
  /\ status = "absent"
  /\ progress = 0
  /\ logs = {}
  /\ taskError = "none"
  /\ branchName = "none"
  /\ pc = "idle"
  /\ wrap = "idle"
  /\ warn = "idle"
  /\ gen = "idle"
  /\ stop = "idle"
  /\ stopCount = 0
  /\ registry = <<>>
  /\ loc = InitLoc
  /\ hist = InitHist
  /\ captured = NoResult
  /\ journal = <<>>
  /\ writers = NoCalls
  /\ table = [t \in RowIds |-> "pending"]
  /\ reply = NoReply
  /\ setup = NoSetup

NextDelete == DELETE \/ RowStatusWrite

\* Bulk deletes beside the status writes of the tasks' runs.
DeleteSpec == InitDelete /\ [][NextDelete]_vars

\* ------------------------------------------------------------- sandbox setup
setupFrame == <<status, progress, logs, taskError, branchName, pc, wrap, warn, gen,
                stop, stopCount, registry, loc, hist, captured, journal, writers,
                table, reply>>

\* The projects a sandbox may hold: package.json, requirements.txt and the three
\* lock files there or not, and the installDependencies flag of the task.
Projects ==
  [installDependencies : BOOLEAN, packageJson : BOOLEAN, requirementsTxt : BOOLEAN,
   pnpmLock : BOOLEAN, yarnLock : BOOLEAN, npmLock : BOOLEAN,
   section : {"none"}, packageManager : {"none"}]

\* test -f package.json, test -f requirements.txt: the install section is chosen.
ProbeProject ==
  /\ setup.project.section = "none"
  /\ LET p == setup.project IN
       setup' = [setup EXCEPT !.project.section =
                   InstallSection(p.installDependencies, p.packageJson, p.requirementsTxt)]
  /\ UNCHANGED setupFrame

\* detectPackageManager(sandbox, logger) on the project's lock files.
DetectPackageManager ==
  /\ setup.project.section = "cs_detect"
  /\ setup.project.packageManager = "none"
  /\ LET p == setup.project IN
       setup' = [setup EXCEPT !.project.packageManager =
                   detectPackageManager(p.pnpmLock, p.yarnLock, p.npmLock)]
  /\ UNCHANGED setupFrame

\* A task being provisioned, with any project in its sandbox.
InitDetect ==
  /\ status = "processing"
  /\ progress = ProgressSandboxCreated
  /\ logs = LogAppend({}, "info", "task-created")
  /\ taskError = "none"
  /\ branchName = "none"
  /\ pc = "cs_probe"
  /\ wrap = "racing"
  /\ warn = "armed"
  /\ gen = "scheduled"
  /\ stop = "idle"
  /\ stopCount = 0
  /\ registry = <<Self>>
  /\ loc = InitLoc
  /\ hist = InitHist
  /\ captured = NoResult
  /\ journal = <<>>
  /\ writers = NoCalls
  /\ table = NoRows
  /\ reply = NoReply
  /\ setup \in {[NoSetup EXCEPT !.project = p] : p \in Projects}

NextDetect == ProbeProject \/ DetectPackageManager

\* The install section and the package manager derived from a project.
DetectSpec == InitDetect /\ [][NextDetect]_vars

\* What createSandbox is given and what git answers: config.existingBranchName,
\* config.preDeterminedBranchName, whether git show-ref finds the branch locally,
\* the result of git ls-remote, and whether the checkout and the pull succeed.
GitSetups ==
  [existingBranchName : {"none", "existing"}, preDeterminedBranchName : {"none", "ai"},
   localBranch : BOOLEAN, lsRemoteOk : BOOLEAN, lsRemoteOutput : {"", "ref"},
   commandOk : BOOLEAN, pullOk : BOOLEAN,
   plan : {NoPlan}, result : {NoBranchResult}]

resolveBranchPreDeterminedFirst(existing, preDetermined, localBranch, lsRemoteOk, lsRemoteOutput) ==
  IF preDetermined # "none"
  THEN [command |-> "checkout-b", branch |-> preDetermined, pull |-> FALSE]
  ELSE IF existing # "none"
  THEN [command |-> "checkout", branch |-> existing, pull |-> TRUE]
  ELSE [command |-> "checkout-b", branch |-> "provFallback", pull |-> FALSE]

\* The git command createSandbox chooses for the working branch: git checkout
\* <existing> and a pull; else for the predetermined name git checkout, git
\* checkout -b <name> origin/<name> or git checkout -b <name>; else git checkout -b
\* of a timestamp name.
resolveBranch(existing, preDetermined, localBranch, lsRemoteOk, lsRemoteOutput) ==
  IF existing # "none"
  THEN [command |-> "checkout", branch |-> existing, pull |-> TRUE]
  ELSE IF preDetermined # "none"
  THEN IF localBranch
       THEN [command |-> "checkout", branch |-> preDetermined, pull |-> FALSE]
       ELSE IF lsRemoteOk /\ lsRemoteOutput # ""
       THEN [command |-> "checkout-track", branch |-> preDetermined, pull |-> FALSE]
       ELSE [command |-> "checkout-b", branch |-> preDetermined, pull |-> FALSE]
  ELSE [command |-> "checkout-b", branch |-> "provFallback", pull |-> FALSE]

\* What createSandbox returns after the chosen command: a failed command throws,
\* the result of the pull is not looked at.
checkoutResult(plan, commandOk, pullOk) ==
  [success |-> commandOk,
   branchName |-> IF commandOk THEN plan.branch ELSE "none",
   ran |-> TRUE]

\* The branch section up to the choice of the command.
ChooseBranchCommand ==
  /\ setup.git.plan = NoPlan
  /\ LET g == setup.git IN
       setup' = [setup EXCEPT !.git.plan =
                   resolveBranch(g.existingBranchName, g.preDeterminedBranchName,
                                 g.localBranch, g.lsRemoteOk, g.lsRemoteOutput)]
  /\ UNCHANGED setupFrame

\* The command (and the pull) ran; createSandbox returns.
RunBranchCommand ==
  /\ setup.git.plan # NoPlan
  /\ ~setup.git.result.ran
  /\ LET g == setup.git IN
       setup' = [setup EXCEPT !.git.result = checkoutResult(g.plan, g.commandOk, g.pullOk)]
  /\ UNCHANGED setupFrame

\* createSandbox before its branch section, with any configuration and repository.
InitBranch ==
  /\ status = "processing"
  /\ progress = ProgressSandboxCreated
  /\ logs = LogAppend({}, "info", "task-created")
  /\ taskError = "none"
  /\ branchName = "none"
  /\ pc = "cs_branch"
  /\ wrap = "racing"
  /\ warn = "armed"
  /\ gen = "scheduled"
  /\ stop = "idle"
  /\ stopCount = 0
  /\ registry = <<Self>>
  /\ loc = InitLoc
  /\ hist = InitHist
  /\ captured = NoResult
  /\ journal = <<>>
  /\ writers = NoCalls
  /\ table = NoRows
  /\ reply = NoReply
  /\ setup \in {[NoSetup EXCEPT !.git = g] : g \in GitSetups}

NextBranch == ChooseBranchCommand \/ RunBranchCommand

\* The branch section of createSandbox on every configuration.
BranchSpec == InitBranch /\ [][NextBranch]_vars

\* ------------------------------------------------------------- pushChangesToBranch, step by step
\* The working tree the agent left, what git status --porcelain prints for it (a
\* failed git status prints nothing), whether git add, git commit and git push
\* succeed, and the command of which runCommandInSandbox throws, if any.
PushSetups ==
  {p \in [tree : Trees, statusOutput : {"", "M file"}, addOk : BOOLEAN,
           commitOk : BOOLEAN, pushOk : BOOLEAN,
           throwsAt : {"none", "status", "add", "commit", "push"},
           at : {"status"}, cmds : {<<>>}, result : {NoPushResult}] :
     p.statusOutput \in {"", Porcelain(p.tree)}}

\* pushChangesToBranch returns {success, pushFailed}.
PushReturn(success, pushFailed) ==
  [at |-> "returned",
   result |-> [success |-> success, pushFailed |-> pushFailed, returned |-> TRUE]]

\* pushChangesToBranch goes on with the command `next`.
PushGoOn(next) == [at |-> next, result |-> NoPushResult]

afterGitCommandAddUnchecked(command, ok, output) ==
  IF command = "status" THEN (IF output = "" THEN PushReturn(TRUE, FALSE) ELSE PushGoOn("add"))
  ELSE IF command = "add" THEN PushGoOn("commit")
  ELSE IF command = "commit" THEN (IF ok THEN PushGoOn("push") ELSE PushReturn(FALSE, FALSE))
  ELSE (IF ok THEN PushReturn(TRUE, FALSE) ELSE PushReturn(TRUE, TRUE))

\* What pushChangesToBranch does with the result of a git command: after git
\* status it returns when the output is empty; after git add and git commit it
\* returns {success: false} on a failure; after git push it returns either way.
afterGitCommand(command, ok, output) ==
  IF command = "status" THEN (IF output = "" THEN PushReturn(TRUE, FALSE) ELSE PushGoOn("add"))
  ELSE IF command = "add" THEN (IF ok THEN PushGoOn("commit") ELSE PushReturn(FALSE, FALSE))
  ELSE IF command = "commit" THEN (IF ok THEN PushGoOn("push") ELSE PushReturn(FALSE, FALSE))
  ELSE (IF ok THEN PushReturn(TRUE, FALSE) ELSE PushReturn(TRUE, TRUE))

\* One git command of pushChangesToBranch is run; a throw is caught and
\* {success: false} returned.
RunGit(command, ok) ==
  /\ setup.push.at = command
  /\ LET p == setup.push
         after == IF p.throwsAt = command THEN PushReturn(FALSE, FALSE)
                  ELSE afterGitCommand(command, ok, p.statusOutput) IN
       setup' = [setup EXCEPT !.push.cmds = Append(@, command),
                              !.push.at = after.at,
                              !.push.result = after.result]
  /\ UNCHANGED setupFrame

GitStatus == RunGit("status", TRUE)

GitAdd == RunGit("add", setup.push.addOk)

GitCommit == RunGit("commit", setup.push.commitOk)

GitPush == RunGit("push", setup.push.pushOk)

\* processTask about to call pushChangesToBranch after a successful agent, with
\* any working tree and any behaviour of the git commands.
InitPush ==
  /\ status = "processing"
  /\ progress = ProgressAgent
  /\ logs = LogAppend(LogAppend({}, "info", "task-created"), "success", "agent-completed")
  /\ taskError = "none"
  /\ branchName = "provFallback"
  /\ pc = "pt_push"
  /\ wrap = "racing"
  /\ warn = "armed"
  /\ gen = "done"
  /\ stop = "idle"
  /\ stopCount = 0
  /\ registry = <<Self>>
  /\ loc = [InitLoc EXCEPT !.sandbox = TRUE, !.resultBranch = "provFallback"]
  /\ hist = InitHist
  /\ captured = NoResult
  /\ journal = <<>>
  /\ writers = NoCalls
  /\ table = NoRows
  /\ reply = NoReply
  /\ setup \in {[NoSetup EXCEPT !.push = p] : p \in PushSetups}

NextPush == GitStatus \/ GitAdd \/ GitCommit \/ GitPush

\* pushChangesToBranch on every tree and every behaviour of git.
PushSpec == InitPush /\ [][NextPush]_vars

\* ------------------------------------------------------------- agent variants
\* A call of one of the five variants: whether the credential of the variant is in
\* the environment (ANTHROPIC_API_KEY for claude, AI_GATEWAY_API_KEY for codex,
\* CURSOR_API_KEY for cursor, one of the three Gemini options for gemini, one of
\* OPENAI_API_KEY and ANTHROPIC_API_KEY for opencode), whether the CLI is there
\* after its installation, and whether the CLI succeeds on the instruction.
AgentRuns ==
  [variant : Agents, credential : BOOLEAN, cliAvailable : BOOLEAN, cliOk : BOOLEAN,
   at : {"start"}, cliInvoked : {FALSE}, result : {NoAgentResult}]

\* The first check of a variant: opencode looks at its keys before it installs
\* the CLI, the others install or look for the CLI first.
FirstCheck(variant) == IF variant = "opencode" THEN "credential" ELSE "cli"

\* What follows the check `at` of a variant.
NextCheck(variant, at) ==
  IF at = "cli" THEN (IF variant = "opencode" THEN "run" ELSE "credential")
  ELSE (IF variant = "opencode" THEN "cli" ELSE "run")

\* The variants that return an error when their credential is not in the
\* environment; gemini goes on with authMethod = 'oauth'.
FailsWithoutCredential(variant) == variant # "gemini"

\* The variant returns {success, error}.
AgentReturn(success, error) ==
  [success |-> success, error |-> error, returned |-> TRUE]

\* executeAgentInSandbox dispatches to the variant.
AgentDispatch ==
  /\ setup.agent.at = "start"
  /\ setup' = [setup EXCEPT !.agent.at = FirstCheck(setup.agent.variant)]
  /\ UNCHANGED setupFrame

\* The CLI is installed and looked for: without it the variant returns an error
\* about the installation.
AgentEnsureCli ==
  /\ setup.agent.at = "cli"
  /\ LET a == setup.agent IN
       IF a.cliAvailable
       THEN setup' = [setup EXCEPT !.agent.at = NextCheck(a.variant, "cli")]
       ELSE setup' = [setup EXCEPT !.agent.at = "returned",
                                   !.agent.result = AgentReturn(FALSE, "cli-not-installed")]
  /\ UNCHANGED setupFrame

\* The credential check of the variant.
AgentCheckCredential ==
  /\ setup.agent.at = "credential"
  /\ LET a == setup.agent IN
       IF ~a.credential /\ FailsWithoutCredential(a.variant)
       THEN setup' = [setup EXCEPT !.agent.at = "returned",
                                   !.agent.result = AgentReturn(FALSE, "credential-missing")]
       ELSE setup' = [setup EXCEPT !.agent.at = NextCheck(a.variant, "credential")]
  /\ UNCHANGED setupFrame

\* The agent CLI is run with the instruction and the variant returns its result.
AgentRunCli ==
  /\ setup.agent.at = "run"
  /\ LET a == setup.agent IN
       setup' = [setup EXCEPT !.agent.at = "returned",
                              !.agent.cliInvoked = TRUE,
                              !.agent.result =
                                 IF a.cliOk THEN AgentReturn(TRUE, "none")
                                 ELSE AgentReturn(FALSE, "cli-failed")]
  /\ UNCHANGED setupFrame

\* processTask about to call executeAgentInSandbox, with any variant and
\* environment.
InitAgent ==
  /\ status = "processing"
  /\ progress = ProgressAgent
  /\ logs = LogAppend({}, "info", "task-created")
  /\ taskError = "none"
  /\ branchName = "provFallback"
  /\ pc = "pt_agent"
  /\ wrap = "racing"
  /\ warn = "armed"
  /\ gen = "done"
  /\ stop = "idle"
  /\ stopCount = 0
  /\ registry = <<Self>>
  /\ loc = [InitLoc EXCEPT !.sandbox = TRUE, !.resultBranch = "provFallback"]
  /\ hist = InitHist
  /\ captured = NoResult
  /\ journal = <<>>
  /\ writers = NoCalls
  /\ table = NoRows
  /\ reply = NoReply
  /\ setup \in {[NoSetup EXCEPT !.agent = a] : a \in AgentRuns}

NextAgent == AgentDispatch \/ AgentEnsureCli \/ AgentCheckCredential \/ AgentRunCli

\* The five agent variants on every environment.
AgentSpec == InitAgent /\ [][NextAgent]_vars

\* ------------------------------------------------------------- Cursor: polling for completion
maxAttempts == 60

\* The error of the result when the marker was not seen.
TimeoutError == "Timeout waiting for completion"

\* A detached cursor-agent: the second of the wait in which the completion marker
\* reaches the stdout callback (0: before the loop starts; maxAttempts + 1: not
\* within the wait), and what the command has written to stderr.
Polls ==
  [markerAt : 0..(maxAttempts + 1), capturedError : {"", "stderr text"},
   attempts : {0}, isCompleted : {FALSE}, at : {"started"}, result : {NoAgentResult}]

\* sandbox.runCommand({detached: true}) returned; the callback may already have
\* seen the marker.
PollStart ==
  /\ setup.poll.at = "started"
  /\ setup' = [setup EXCEPT !.poll.at = "polling",
                            !.poll.isCompleted = (setup.poll.markerAt = 0)]
  /\ UNCHANGED setupFrame

\* One turn of while (!isCompleted && attempts < maxAttempts): a second is waited,
\* in which the marker may arrive, and attempts is incremented.
PollWait ==
  /\ setup.poll.at = "polling"
  /\ ~setup.poll.isCompleted
  /\ setup.poll.attempts < maxAttempts
  /\ setup' = [setup EXCEPT !.poll.attempts = @ + 1,
                            !.poll.isCompleted = (setup.poll.markerAt = setup.poll.attempts + 1)]
  /\ UNCHANGED setupFrame

\* The error of the variant's result after the loop without the marker.
pollError(capturedError) ==
  IF capturedError # "" THEN capturedError ELSE TimeoutError

\* The loop is left: the result is built from isCompleted and returned.
PollEnd ==
  /\ setup.poll.at = "polling"
  /\ setup.poll.isCompleted \/ setup.poll.attempts >= maxAttempts
  /\ setup' = [setup EXCEPT !.poll.at = "returned",
                            !.poll.result =
                               IF setup.poll.isCompleted THEN AgentReturn(TRUE, "none")
                               ELSE AgentReturn(FALSE, pollError(setup.poll.capturedError))]
  /\ UNCHANGED setupFrame

\* The Cursor variant after it has started cursor-agent, with any time of
\* completion.
InitPoll ==
  /\ status = "processing"
  /\ progress = ProgressAgent
  /\ logs = LogAppend({}, "info", "task-created")
  /\ taskError = "none"
  /\ branchName = "provFallback"
  /\ pc = "pt_agentWait"
  /\ wrap = "racing"
  /\ warn = "armed"
  /\ gen = "done"
  /\ stop = "idle"
  /\ stopCount = 0
  /\ registry = <<Self>>
  /\ loc = [InitLoc EXCEPT !.sandbox = TRUE, !.resultBranch = "provFallback"]
  /\ hist = [InitHist EXCEPT !.agentInvoked = TRUE]
  /\ captured = NoResult
  /\ journal = <<>>
  /\ writers = NoCalls
  /\ table = NoRows
  /\ reply = NoReply
  /\ setup \in {[NoSetup EXCEPT !.poll = q] : q \in Polls}

NextPoll == PollStart \/ PollWait \/ PollEnd

\* The polling loop of the Cursor variant on every time of completion.
PollSpec == InitPoll /\ [][NextPoll]_vars

\* ------------------------------------------------------------- the two timeout races
\* getAgentTimeout(agent), in milliseconds.
getAgentTimeout(agent) ==
  IF agent = "cursor" THEN 5 * 60 * 1000 ELSE 3 * 60 * 1000

\* The time since processTaskWithTimeout armed the global timer at which
\* processTask reaches the agent execution, in steps of half a minute up to the
\* global timeout.
StartStep == 30 * 1000

StartTimes == {k * StartStep : k \in 0..((TASK_TIMEOUT_MS \div StartStep) - 1)}

AgentStarts ==
  [agent : Agents, startedAt : StartTimes, agentTimeout : {0}, agentExpiry : {0},
   globalExpiry : {TASK_TIMEOUT_MS}, fired : {"none"}, at : {"agent"}]

\* AGENT_TIMEOUT_MS is computed and the agent timer armed.
ArmAgentTimer ==
  /\ setup.timers.at = "agent"
  /\ LET t == setup.timers IN
       setup' = [setup EXCEPT !.timers.agentTimeout = getAgentTimeout(t.agent),
                              !.timers.agentExpiry = t.startedAt + getAgentTimeout(t.agent),
                              !.timers.at = "armed"]
  /\ UNCHANGED setupFrame

\* With the agent still running, the timer that expires first fires; of two
\* timers expiring together either may be first.
FirstTimerFires ==
  /\ setup.timers.at = "armed"
  /\ LET t == setup.timers IN
       \E which \in {"agent", "global"} :
          /\ which = "agent" => t.agentExpiry <= t.globalExpiry
          /\ which = "global" => t.globalExpiry <= t.agentExpiry
          /\ setup' = [setup EXCEPT !.timers.fired = which, !.timers.at = "fired"]
  /\ UNCHANGED setupFrame

\* processTask about to start the agent, at any time since the task was created
\* and for any agent.
InitTimers ==
  /\ status = "processing"
  /\ progress = ProgressAgent
  /\ logs = LogAppend({}, "info", "task-created")
  /\ taskError = "none"
  /\ branchName = "provFallback"
  /\ pc = "pt_agent"
  /\ wrap = "racing"
  /\ warn = "armed"
  /\ gen = "done"
  /\ stop = "idle"
  /\ stopCount = 0
  /\ registry = <<Self>>
  /\ loc = [InitLoc EXCEPT !.sandbox = TRUE, !.resultBranch = "provFallback"]
  /\ hist = InitHist
  /\ captured = NoResult
  /\ journal = <<>>
  /\ writers = NoCalls
  /\ table = NoRows
  /\ reply = NoReply
  /\ setup \in {[NoSetup EXCEPT !.timers = t] : t \in AgentStarts}

NextTimers == ArmAgentTimer \/ FirstTimerFires

\* The agent timer beside the global timer, for every agent and start time.
TimersSpec == InitTimers /\ [][NextTimers]_vars

\* ------------------------------------------------------------- properties
\* The errors createSandbox throws that are not dependency-install failures.
ProvisioningErrors == {"env-invalid", "create-failed", "create-timeout",
                       "git-init-failed", "branch-failed"}

\* C1: once a task's status is completed, error or stopped, no later write changes
\* it to a different value.
C1_TerminalStatusIsFinal == [][(status \in Terminal) => (status' = status)]_vars

\* C2: once the stop path has set the status to stopped, no later write of the
\* orchestrator or of the timeout handler replaces it.
C2_StoppedIsNeverOverwritten == [][(status = "stopped") => (status' = "stopped")]_vars

\* C3: for a task whose sandbox was created, shutdownSandbox runs exactly once,
\* whichever way processTask ends.
C3_TeardownExactlyOnce ==
  /\ hist.shutdowns <= 1
  /\ (pc = "done" /\ hist.created > 0) => hist.shutdowns = 1

\* C4: every run of processTaskWithTimeout of a created task ends, and when it
\* ends the status is completed, error or stopped, even if processTask hangs.
C4_RunEndsInTerminalStatus ==
  /\ (status # "absent") ~> (wrap = "done")
  /\ [][(wrap # "done" /\ wrap' = "done") => (status' \in Terminal)]_vars

\* C4 witness: the timeout handler ended the run while processTask was still inside
\* a step.
C4_Witness ==
  /\ wrap = "done"
  /\ pc \in {"cs_create", "pt_agentWait", "pt_push"}
  /\ status = "error"
  /\ taskError = "timed-out"

\* C5: once a branch name is persisted, no later write changes it.
C5_BranchNameWriteOnce == [][(branchName # "none") => (branchName' = branchName)]_vars

\* C6: the agent succeeded and the push failed for a permission reason: the status
\* is never completed, the final status is error and the log holds the reason.
C6_PushDeniedEndsInError ==
  (hist.agentSuccess /\ hist.pushReason = "push-denied") =>
     /\ status # "completed"
     /\ [type |-> "info", msg |-> "push-failed-reason"] \in logs
     /\ pc = "done" => status = "error"

C6_Witness ==
  /\ pc = "done"
  /\ hist.agentSuccess
  /\ hist.pushReason = "push-denied"
  /\ status = "error"

\* C7: a task stopped before Sandbox.create completed never has registerSandbox
\* called for it, and its final status is stopped.
C7_StopBeforeCreateNeverRegisters ==
  hist.stopBeforeCreate =>
     /\ hist.registered = 0
     /\ (pc = "done" /\ wrap = "done") => status = "stopped"

\* C8: for a task stopped after its sandbox was registered, the registry entry of
\* the task is removed exactly once over the whole run.
C8_StoppedEntryRemovedOnce ==
  /\ hist.removed <= 1
  /\ (hist.stopAfterRegister /\ pc = "done" /\ stop = "idle") => hist.removed = 1

\* C8 witness: the stop was observed at a checkpoint (no agent ran, processTask
\* returned without unregistering) and the entry was removed once.
C8_Witness ==
  /\ hist.stopAfterRegister
  /\ pc = "done"
  /\ stop = "idle"
  /\ ~hist.agentInvoked
  /\ hist.removed = 1

\* C9: while the status is processing, no write lowers the progress.
C9_ProgressNonDecreasing == [][(status = "processing") => (progress' >= progress)]_vars

C9_Witness ==
  /\ status = "processing"
  /\ progress = ProgressNpmFallback

\* C10: a failed dependency install is never an error of createSandbox, and with
\* no stop request and no other provisioning failure the agent is invoked.
C10_InstallFailureNeverBlocksAgent ==
  /\ pc = "cs_catch" => loc.errMsg \in ProvisioningErrors
  /\ (pc = "done" /\ hist.depFail /\ stopCount = 0
        /\ loc.errMsg \notin ProvisioningErrors) => hist.agentInvoked

C10_Witness ==
  /\ pc = "done"
  /\ hist.depFail
  /\ stopCount = 0
  /\ hist.agentInvoked

\* C11: with a clean working tree after the agent ran, the agent result has
\* changesDetected = false, and pushChangesToBranch runs no git add, commit or
\* push and returns success = true without pushFailed.
C11_CleanTreeIsNoOp ==
  hist.tree = "clean" =>
     /\ ~loc.changesDetected
     /\ hist.gitCmds \cap {"add", "commit", "push"} = {}
     /\ hist.pushReason = "clean" => (loc.pushSuccess /\ ~loc.pushFailed)

\* C11 witness: pushChangesToBranch returned on a clean tree.
C11_Witness ==
  /\ hist.tree = "clean"
  /\ hist.pushReason = "clean"
  /\ hist.gitCmds = {"status"}
  /\ ~loc.changesDetected
  /\ loc.pushSuccess
\* C12: no text of a raw command string, of captured output or of an error message
\* is logged or persisted as the task's error before it was redacted: no log
\* entry and no error field holds the secret of a command.
C12_OnlyRedactedTextIsPersisted ==
  /\ \A e \in logs : e.msg # Secret
  /\ taskError # Secret
\* journal is the beginning of journal2.
IsPrefix(j, j2) == Len(j) <= Len(j2) /\ SubSeq(j2, 1, Len(j)) = j

C14_WaitedNameIsTheBranch ==
  loc.aiBranchName # "none" =>
     /\ branchName = loc.aiBranchName
     /\ gen = "done"
     /\ loc.resultBranch \in {"none", loc.aiBranchName}
     /\ hist.pushBranch \in {"none", loc.aiBranchName}
     /\ hist.fallbackWrites = (IF loc.aiBranchName = "genFallback" THEN 1 ELSE 0)

\* C14 witness: the AI name was there within the wait and the changes were pushed
\* to it.
C14_Witness ==
  /\ loc.aiBranchName = "ai"
  /\ hist.pushBranch = "ai"
  /\ hist.pushReason = "pushed"
  /\ branchName = "ai"

\* C15: when waitForBranchName returned null, at most one fallback name is
\* persisted over the run, exactly one once the sandbox result was recorded, and
\* the generated name is never persisted.
C15_OneFallbackAfterExpiredWait ==
  hist.waitExpired =>
     /\ branchName # "ai"
     /\ hist.fallbackWrites <= 1
     /\ pc \in {"pt_check4", "pt_progress50", "pt_agent"} => hist.fallbackWrites = 1
\* A run so far without a stop request, without the global timeout and without a
\* failed step of provisioning, agent or publishing.
Undisturbed ==
  /\ stopCount = 0
  /\ [type |-> "error", msg |-> "timed-out"] \notin logs
  /\ wrap # "timeoutStatus"
  /\ loc.errMsg = "none"
  /\ hist.pushReason \in {"none", "clean", "pushed"}

\* The status changes of the task along such a run.
StatusOrder == {<<"absent", "pending">>, <<"pending", "processing">>,
                <<"processing", "completed">>}

\* C16: in a run with no stop request, no timeout and no failing step the status
\* goes from pending to processing to completed and through nothing else, the
\* run ends completed with progress 100, and a completed task has its branch name.
C16_UndisturbedRunCompletes ==
  /\ [][Undisturbed' => (status' = status \/ <<status, status'>> \in StatusOrder)]_vars
  /\ []((Undisturbed /\ pc = "done") =>
          (status = "completed" /\ progress = 100))
  /\ []((Undisturbed /\ status = "completed") => branchName # "none")

\* C16 witness: such a run has ended after a push.
C16_Witness ==
  /\ Undisturbed
  /\ pc = "done"
  /\ wrap = "done"
  /\ hist.pushReason = "pushed"
  /\ status = "completed"
  /\ progress = 100
  /\ branchName # "none"
\* C17: for the registry as it stands and any task id, killSandbox called twice
\* in a row leaves the registry as one call leaves it.
C17_KillSandboxIdempotent ==
  \A t \in {Self} \cup Others :
     killSandbox(killSandbox(registry, t), t) = killSandbox(registry, t)
\* The statuses a bulk delete asks for: completed, failed (status error), stopped.
Asked(actions) ==
  {IF actions[i] = "failed" THEN "error" ELSE actions[i] : i \in 1..Len(actions)}

\* An action parameter that is there and holds only completed, failed or stopped.
WellFormed(actions) ==
  /\ actions # <<>>
  /\ \A i \in 1..Len(actions) : actions[i] \in {"completed", "failed", "stopped"}

\* C18: a bulk delete removes exactly the rows whose status is among those asked
\* for; it never removes a pending or processing row; and a request without
\* action or with an invalid action is refused and removes nothing.
C18_BulkDeleteByStatus ==
  [][(reply'.serial # reply.serial) =>
       /\ ~WellFormed(reply'.action) => (reply'.code = 400 /\ table' = table)
       /\ reply'.code # 200 => table' = table
       /\ reply'.code = 200 =>
            \A t \in RowIds :
               /\ table[t] \in Asked(reply'.action) => table'[t] = "deleted"
               /\ table[t] \notin Asked(reply'.action) => table'[t] = table[t]
               /\ table[t] \in Active => table'[t] = table[t]]_vars

\* C18 witness: a delete of completed and failed tasks removed the row in error and
\* left the processing row.
C18_Witness ==
  /\ reply.code = 200
  /\ reply.action = <<"completed", "failed">>
  /\ table[1] = "deleted"
  /\ table[2] = "processing"

\* The bodies the claim calls invalid: no prompt or an empty one, a repoUrl that is
\* not a URL, an agent outside the five identifiers.
FailsValidation(body) ==
  \/ body.prompt \in {"missing", ""}
  \/ body.repoUrl = "not a url"
  \/ body.selectedAgent \notin Agents \cup {"missing"}

\* C19: a create request whose body fails validation is answered with an error,
\* and after that answer there is no task row, no scheduled branch-name generator
\* and no processTaskWithTimeout.
C19_InvalidBodyCreatesNothing ==
  /\ [][(hist'.response # hist.response /\ FailsValidation(hist.request))
          => hist'.response = 500]_vars
  /\ [](hist.response = 500 =>
          /\ status = "absent"
          /\ logs = {}
          /\ gen = "idle"
          /\ wrap = "idle"
          /\ warn = "idle"
          /\ pc = "idle")

\* C19 witness: a body whose only fault is its agent was answered with an error.
C19_Witness ==
  /\ hist.response = 500
  /\ hist.request.prompt = "fix the bug"
  /\ hist.request.repoUrl = "https://github.com/o/r"
  /\ hist.request.selectedAgent = "aider"

\* C20: once pushChangesToBranch has returned success=false (git add failed, git
\* commit failed or a git command threw) the task is never completed, and a run
\* that ends without stop request or timeout ends in status error.
C20_HardGitFailureIsFatal ==
  hist.pushReason \in HardGitFailures =>
    /\ status # "completed"
    /\ (pc = "done" /\ stopCount = 0 /\ wrap # "timeoutStatus"
          /\ [type |-> "error", msg |-> "timed-out"] \notin logs) => status = "error"

\* The timeout handler of processTaskWithTimeout has logged the timed-out error and
\* written status error.
TimedOut ==
  /\ [type |-> "error", msg |-> "timed-out"] \in logs
  /\ wrap = "done"

\* C21: after the timeout handler has written status error with the timed-out
\* message, no agent invocation is started and no git add, commit or push is run
\* for the task.
C21_TimeoutAbortsTheTask ==
  [][TimedOut =>
       /\ hist'.agentInvoked = hist.agentInvoked
       /\ hist'.gitCmds = hist.gitCmds]_vars

\* The global timer has just won the race and the task's sandbox exists.
TimerWonWithSandbox ==
  /\ wrap = "timeoutStatus"
  /\ hist.created > 0
  /\ hist.shutdowns = 0

\* C22: when the global timer wins the race while the task's sandbox exists, the
\* sandbox is eventually unregistered and shut down, and shutdownSandbox runs for
\* it once and no more.
C22_TimeoutTearsDownOnce ==
  /\ TimerWonWithSandbox ~> (hist.shutdowns = 1 /\ ~Has(registry, Self))
  /\ [](TimerWonWithSandbox => [](hist.shutdowns <= 1))

\* The cancellation checkpoints of createSandbox.
Checkpoints == {"cs_check0", "cs_check1", "cs_check2", "cs_check3"}

\* The error entries of a log.
ErrorEntries(l) == {e \in l : e.type = "error"}

\* C23: createSandbox seeing the task stopped at one of its checkpoints returns
\* the cancelled outcome: it enters no catch and runs no later sandbox command,
\* and processTask then returns without a status write, without an error field
\* and without an error entry in the log.
C23_CancelledIsNotAnError ==
  /\ [][(pc \in Checkpoints /\ status = "stopped" /\ pc' # pc) =>
          /\ pc' = "pt_cancelled"
          /\ status' = status
          /\ ErrorEntries(logs') = ErrorEntries(logs)
          /\ hist' = hist
          /\ registry' = registry]_vars
  /\ [][(pc = "pt_cancelled" /\ pc' # pc) =>
          /\ pc' = "done"
          /\ status' = status
          /\ taskError' = taskError
          /\ ErrorEntries(logs') = ErrorEntries(logs)
          /\ hist' = hist
          /\ registry' = registry]_vars

\* C23 witness: the stop was seen at the checkpoint before the git configuration
\* and processTask returned with the task stopped and no error entry.
C23_Witness ==
  /\ pc = "done"
  /\ [type |-> "info", msg |-> "cancelled-before-git-configuration"] \in logs
  /\ [type |-> "info", msg |-> "cancelled-during-sandbox-creation"] \in logs
  /\ status = "stopped"
  /\ taskError = "none"
  /\ ErrorEntries(logs) = {}

\* C24: when the catch of processTask writes status error for a task whose sandbox
\* was created, the sandbox has been shut down and its registry entry removed
\* before that write, also when createSandbox failed after Sandbox.create.
C24_ErrorAfterTeardown ==
  [][(pc = "pt_catchStatus" /\ pc' = "done" /\ hist.created > 0) =>
       /\ hist.shutdowns >= 1
       /\ ~Has(registry, Self)]_vars

WarningEntry == [type |-> "info", msg |-> "warning-4-minutes"]

TimedOutEntry == [type |-> "error", msg |-> "timed-out"]

EndsAsAgentFailure(reason) ==
  loc.errMsg = reason =>
     /\ hist.agentInvoked /\ ~hist.agentSuccess
     /\ hist.pushReason = "none"
     /\ hist.gitCmds = {}
     /\ hist.shutdowns <= 1
     /\ status # "completed"
     /\ pc = "done" => (status = "error" /\ hist.shutdowns = 1 /\ ~Has(registry, Self))

\* C26: a run in which the agent timer won the race ends as a run in which the
\* agent returned success=false: no commit or push, one unregister and shutdown
\* of the sandbox, final status error, nothing of the agent's result used.
C26_AgentTimeoutIsAgentFailure ==
  /\ EndsAsAgentFailure("agent-timed-out")
  /\ EndsAsAgentFailure("agent-failed")

\* C26 witness: the run ended after the agent timer had won.
C26_Witness ==
  /\ pc = "done"
  /\ loc.errMsg = "agent-timed-out"
  /\ status = "error"
  /\ taskError = "agent-timed-out"
  /\ hist.shutdowns = 1
  /\ hist.gitCmds = {}

\* C27: in one provisioning run npm is installed as the automatic retry once when
\* the install with the detected pnpm or yarn failed, never more than once on any
\* path, and never when the detected manager is npm.
C27_NpmRetryAtMostOnce ==
  /\ loc.npmRetries <= 1
  /\ loc.packageManager = "npm" => loc.npmRetries = 0
  /\ (pc \in {"cs_check3", "cs_git", "cs_branch"} /\ loc.packageManager # "npm"
        /\ ~loc.installOk) => loc.npmRetries = 1

\* C28: for every combination of the three lock files detectPackageManager
\* returns pnpm if pnpm-lock.yaml is there, else yarn if yarn.lock is there, else
\* npm, with package-lock.json or without.
C28_LockFilePriority ==
  LET p == setup.project IN
    p.packageManager # "none" =>
       /\ p.pnpmLock => p.packageManager = "pnpm"
       /\ (~p.pnpmLock /\ p.yarnLock) => p.packageManager = "yarn"
       /\ (~p.pnpmLock /\ ~p.yarnLock) => p.packageManager = "npm"

\* C28 witness: with all three lock files there, pnpm was detected.
C28_Witness ==
  /\ setup.project.pnpmLock
  /\ setup.project.yarnLock
  /\ setup.project.npmLock
  /\ setup.project.packageManager = "pnpm"

\* C29: the working branch by priority: the existing branch is checked out and
\* pulled; else the precomputed name is checked out locally, else checked out
\* tracking origin, else created; else a timestamp name is created.  A failed
\* checkout or creation gives success=false, a failed pull does not, and on
\* success the returned branchName is the branch of the command.
C29_BranchResolution ==
  LET g == setup.git IN
    g.result.ran =>
       /\ g.existingBranchName # "none" =>
            g.plan = [command |-> "checkout", branch |-> g.existingBranchName, pull |-> TRUE]
       /\ (g.existingBranchName = "none" /\ g.preDeterminedBranchName # "none") =>
            /\ g.plan.branch = g.preDeterminedBranchName
            /\ ~g.plan.pull
            /\ g.plan.command =
                  (IF g.localBranch THEN "checkout"
                   ELSE IF g.lsRemoteOk /\ g.lsRemoteOutput = "ref" THEN "checkout-track"
                   ELSE "checkout-b")
       /\ (g.existingBranchName = "none" /\ g.preDeterminedBranchName = "none") =>
            g.plan = [command |-> "checkout-b", branch |-> "provFallback", pull |-> FALSE]
       /\ g.result.success = g.commandOk
       /\ g.result.success => g.result.branchName = g.plan.branch

\* C29 witness: an existing branch and a precomputed name were both given, the
\* checkout succeeded and the pull failed: the existing branch is returned.
C29_Witness ==
  LET g == setup.git IN
    /\ g.result.ran
    /\ g.existingBranchName = "existing"
    /\ g.preDeterminedBranchName = "ai"
    /\ ~g.pullOk
    /\ g.result.success
    /\ g.result.branchName = "existing"

\* The task ids killSandbox may be called with: the tasks of the registry and a
\* task that never registered a sandbox.
KillableIds == 0..(MaxOthers + 1)

\* C30: killSandbox(taskId) on a registry without an entry for taskId removes
\* the earliest-registered entry and no other and reports success naming that
\* task when the registry is not empty; on an empty registry it reports failure
\* and changes nothing.
C30_FallbackKillsOldest ==
  \A t \in KillableIds :
     ~Has(registry, t) =>
        IF Len(registry) > 0
        THEN /\ killSandbox(registry, t) = Tail(registry)
             /\ killSandboxReport(registry, t) = [success |-> TRUE, killed |-> registry[1]]
        ELSE /\ killSandbox(registry, t) = registry
             /\ ~killSandboxReport(registry, t).success

\* C30 witness: the sandbox of the observed task, just registered, was removed by
\* the stop of another task that had no entry of its own.
C30_Witness ==
  /\ pc = "cs_check1"
  /\ stopCount = 0
  /\ hist.registered = 1
  /\ hist.removed = 1
  /\ registry = <<>>

\* C31: unregisterSandbox(taskId) on a registry without an entry for taskId leaves
\* the registry as it is; called twice it leaves what one call leaves; and it
\* removes or moves the entry of no other task, also when processTask calls it a
\* second time in its catch.
C31_UnregisterIdempotent ==
  /\ [](\A t \in KillableIds :
          LET once == unregisterSandbox(registry, t) IN
            /\ ~Has(registry, t) => once = registry
            /\ unregisterSandbox(once, t) = once
            /\ ~Has(once, t)
            /\ once = SelectSeq(registry, LAMBDA u : u # t))
  /\ [][(pc = "pt_catch" /\ loc.sandbox /\ pc' = "pt_catchLog") =>
          registry' = SelectSeq(registry, LAMBDA u : u # Self)]_vars

\* C31 witness: after a failed push the catch of processTask has called
\* unregisterSandbox a second time, with the sandbox of another task registered.
C31_Witness ==
  /\ pc = "pt_catchLog"
  /\ loc.sandbox
  /\ hist.pushReason = "push-denied"
  /\ hist.shutdowns = 2
  /\ registry = <<1>>

\* The git commands pushChangesToBranch runs after git status, in their order.
PublishOrder == <<"status", "add", "commit", "push">>

\* C32: when git status shows a dirty tree pushChangesToBranch runs git add, git
\* commit and git push in that order; git commit is run only after git add
\* succeeded and git push only after git commit succeeded; when add or commit
\* fails it returns success=false and git push is not run; and pushFailed=true
\* is returned only when add and commit succeeded and the push failed.
C32_AddCommitPushInOrder ==
  LET p == setup.push
      ran(c) == \E i \in 1..Len(p.cmds) : p.cmds[i] = c IN
    /\ Len(p.cmds) <= Len(PublishOrder)
    /\ p.cmds = SubSeq(PublishOrder, 1, Len(p.cmds))
    /\ ran("add") => p.statusOutput # ""
    /\ ran("commit") => (p.addOk /\ p.throwsAt # "add")
    /\ ran("push") => (p.commitOk /\ p.throwsAt # "commit")
    /\ (p.result.returned /\ p.statusOutput # "" /\ p.throwsAt = "none") =>
          /\ ran("add")
          /\ p.addOk => ran("commit")
          /\ (p.addOk /\ p.commitOk) => ran("push")
          /\ (~p.addOk \/ ~p.commitOk) => (~p.result.success /\ ~ran("push"))
    /\ p.result.pushFailed =>
          (p.addOk /\ p.commitOk /\ ~p.pushOk /\ ran("push") /\ p.result.success)

\* C32 witness: add and commit succeeded, the push failed, and pushFailed was
\* returned with success.
C32_Witness ==
  /\ setup.push.cmds = PublishOrder
  /\ setup.push.result = [success |-> TRUE, pushFailed |-> TRUE, returned |-> TRUE]
  /\ setup.push.tree = "dirty"

\* C33: a variant whose credential is absent never runs the agent CLI with the
\* instruction, and returns success=false with the error that names the missing
\* credential.
C33_MissingCredentialFailsFast ==
  LET a == setup.agent IN
    (a.variant \in Agents /\ ~a.credential) =>
       /\ ~a.cliInvoked
       /\ a.result.returned =>
             (~a.result.success /\ a.result.error = "credential-missing")

\* C34: the polling loop of the Cursor variant makes at most 60 turns of one
\* second, and when the completion marker was not seen by then the variant
\* returns success=false with the timeout error.
C34_CursorPollingIsBounded ==
  LET q == setup.poll IN
    /\ q.attempts <= 60
    /\ (q.at = "polling" /\ q.attempts = 60) => ~ENABLED PollWait
    /\ (q.result.returned /\ ~q.isCompleted) =>
          (~q.result.success /\ q.attempts = 60 /\ q.result.error = TimeoutError)

\* The checkpoints at which processTask and createSandbox read the status, up to
\* the one before the agent execution.
StopCheckpoints == {"pt_check1", "pt_check2", "cs_check0", "cs_check1", "cs_check2",
                    "cs_check3", "pt_check3", "pt_check4"}

\* C35: a stop request made before the checkpoint 'before agent execution' is
\* seen at the next checkpoint processTask or createSandbox reaches: the
\* checkpoint does not let the run go on, so the agent is never invoked.
C35_StopSeenAtNextCheckpoint ==
  [][(stopCount > 0 /\ pc \in StopCheckpoints /\ pc' # pc) =>
       pc' \in {"done", CancelledOutcome, "pt_stopShutdown"}]_vars

\* C36: the branch-name generator ends either with the generated name persisted
\* or, when the generative step gave no name (the call failed or could not be
\* made), with its fallback name of timestamp and task id persisted.
C36_GeneratorFallsBack ==
  [][(gen # "done" /\ gen' = "done") =>
       \/ branchName' = "ai"
       \/ /\ branchName' = "genFallback"
          /\ hist'.fallbackWrites = hist.fallbackWrites + 1]_vars

\* C37: for every agent the duration of the agent timer is strictly smaller than
\* the duration of the global timer, and the agent timer armed at the agent
\* execution expires before the global timer armed at the creation of the task.
C37_TimeoutsAreNested ==
  LET t == setup.timers IN
    /\ t.at # "agent" => t.agentTimeout < TASK_TIMEOUT_MS
    /\ t.at # "agent" => t.agentExpiry < t.globalExpiry
    /\ t.fired # "none" => t.fired = "agent"

\* C38: whenever the task is completed after its changes were pushed, the branch
\* name persisted on the task is the branch createSandbox returned, which is the
\* branch checked out in the sandbox and pushed to.
C38_PersistedBranchIsPushedBranch ==
  (status = "completed" /\ hist.pushReason = "pushed") =>
     /\ hist.pushBranch = loc.resultBranch
     /\ branchName = hist.pushBranch

\* C39: once processTask has returned (completed, in error, or from a stop or
\* cancel at a checkpoint) and no stop request is still on its way to killSandbox,
\* the registry holds no entry for the task.
C39_NoEntryAfterReturn == (pc = "done" /\ stop = "idle") => ~Has(registry, Self)

====
